---- MODULE Spec2Model ----
(***************************************************************************)
(* A model of the address book of address_book.py: Record (phones and      *)
(* birthday of one contact), AddressBook (an insertion-ordered mapping     *)
(* from name to Record) and the upcoming-birthdays query.                  *)
(*                                                                         *)
(* A Python str is a sequence of one-character strings; a longer literal   *)
(* (a fixed message) is one element of such a sequence.  The character     *)
(* U+00BD (VULGAR FRACTION ONE HALF) is written "U+00BD".                  *)
(* A date is <<year, month, day>>; None is <<>>.                           *)
(***************************************************************************)
EXTENDS Integers, Sequences, FiniteSets, TLC

VARIABLES heap, book, latest, last, pre

vars == <<heap, book, latest, last, pre>>

(***************************************************************************)
(* Bounds of the model and constants of the program.                       *)
(***************************************************************************)
MaxPhones == 3      \* phones held by one Record
MaxRecords == 2     \* Record objects constructed
MaxBookPhones == 1  \* phones held by a Record of the book specification
DAYS_IN_WEEK == 7
WindowDays == 7     \* the 7 of "0 <= delta_days <= 7"
PhoneLen == 10      \* the 10 of "len(phone) == 10"
WEEKEND_DAYS == {5, 6}

(***************************************************************************)
(* Characters and strings.                                                 *)
(***************************************************************************)
Digits == <<"0", "1", "2", "3", "4", "5", "6", "7", "8", "9">>

DecimalDigits == {Digits[i] : i \in 1..10}

\* str.isnumeric() of one character: the decimal digits and every other
\* character with the Unicode numeric-value property, U+00BD among them.
NumericChars == DecimalDigits \cup {"U+00BD"}

DigitVal(c) == (CHOOSE i \in 1..10 : Digits[i] = c) - 1

Min(S) == CHOOSE x \in S : \A y \in S : x <= y

\* str.isnumeric(): at least one character, and every character numeric.
isnumeric(s) == Len(s) > 0 /\ \A i \in 1..Len(s) : s[i] \in NumericChars

\* Record.is_phone_valid
is_phone_valid(phone) == Len(phone) = PhoneLen /\ isnumeric(phone)

(***************************************************************************)
(* Messages.                                                               *)
(***************************************************************************)
None == <<>>
MsgPhoneAdded == <<"The phone is added successfully">>
MsgPhoneNotAdded(phone) ==
    <<"Phone ">> \o phone \o <<" was not added, it should be 10 digits long and numeric">>
MsgInvalidDate == <<"Invalid date format. Use DD.MM.YYYY">>
MsgBirthdayAdded == <<"Birthday is added successfully">>

(***************************************************************************)
(* datetime.date: the proleptic Gregorian calendar.                        *)
(***************************************************************************)
Year(dt) == dt[1]
Month(dt) == dt[2]
Day(dt) == dt[3]

is_leap(y) == y % 4 = 0 /\ (y % 100 # 0 \/ y % 400 = 0)

days_in_month(y, m) ==
    IF m = 2 THEN (IF is_leap(y) THEN 29 ELSE 28)
    ELSE IF m \in {4, 6, 9, 11} THEN 30 ELSE 31

\* What the date constructor accepts.
is_date(y, m, d) ==
    /\ y \in 1..9999
    /\ m \in 1..12
    /\ d >= 1
    /\ d <= days_in_month(y, m)

days_before_year(y) ==
    (y - 1) * 365 + ((y - 1) \div 4) - ((y - 1) \div 100) + ((y - 1) \div 400)

DaysBeforeMonth == <<0, 31, 59, 90, 120, 151, 181, 212, 243, 273, 304, 334>>

days_before_month(y, m) ==
    DaysBeforeMonth[m] + (IF m > 2 /\ is_leap(y) THEN 1 ELSE 0)

\* date.toordinal(): 1 is 0001-01-01.
toordinal(dt) ==
    days_before_year(Year(dt)) + days_before_month(Year(dt), Month(dt)) + Day(dt)

\* date.fromordinal(n), the inverse of toordinal.
fromordinal(n) ==
    LET y == CHOOSE yy \in (n \div 366)..((n \div 365) + 1) :
                 days_before_year(yy) < n /\ n <= days_before_year(yy + 1)
        r == n - days_before_year(y)
        m == CHOOSE mm \in 1..12 :
                 /\ days_before_month(y, mm) < r
                 /\ r <= days_before_month(y, mm) + days_in_month(y, mm)
    IN  <<y, m, r - days_before_month(y, m)>>

\* date.weekday(): Monday is 0, Sunday is 6.
weekday(dt) == (toordinal(dt) + 6) % 7

\* a < b on dates.
date_lt(a, b) == toordinal(a) < toordinal(b)

\* (a - b).days
days_between(a, b) == toordinal(a) - toordinal(b)

\* date + timedelta(days=k)
date_plus(dt, k) == fromordinal(toordinal(dt) + k)

\* date.replace(year=y): <<>> stands for the ValueError the constructor raises.
replace_year(dt, y) ==
    IF is_date(y, Month(dt), Day(dt)) THEN <<y, Month(dt), Day(dt)>> ELSE <<>>

(***************************************************************************)
(* DATE_FORMAT = "%d.%m.%Y": strptime and strftime.                        *)
(***************************************************************************)
IsDigits(s) == \A i \in 1..Len(s) : s[i] \in DecimalDigits

RECURSIVE Number(_)
Number(s) ==
    IF s = <<>> THEN 0
    ELSE 10 * Number(SubSeq(s, 1, Len(s) - 1)) + DigitVal(s[Len(s)])

\* %d: 3[0-1] | [1-2]\d | 0[1-9] | [1-9] | " "[1-9]
MatchesDay(s) ==
    \/ Len(s) = 2 /\ s[1] = "3" /\ s[2] \in {"0", "1"}
    \/ Len(s) = 2 /\ s[1] \in {"1", "2"} /\ s[2] \in DecimalDigits
    \/ Len(s) = 2 /\ s[1] \in {"0", " "} /\ s[2] \in DecimalDigits \ {"0"}
    \/ Len(s) = 1 /\ s[1] \in DecimalDigits \ {"0"}

\* %m: 1[0-2] | 0[1-9] | [1-9]
MatchesMonth(s) ==
    \/ Len(s) = 2 /\ s[1] = "1" /\ s[2] \in {"0", "1", "2"}
    \/ Len(s) = 2 /\ s[1] = "0" /\ s[2] \in DecimalDigits \ {"0"}
    \/ Len(s) = 1 /\ s[1] \in DecimalDigits \ {"0"}

\* %Y: \d\d\d\d
MatchesYear(s) == Len(s) = 4 /\ IsDigits(s)

DayNumber(s) == IF s[1] = " " THEN DigitVal(s[2]) ELSE Number(s)

\* datetime.strptime(value, DATE_FORMAT): the date, or <<>> for a ValueError
\* (no match, unconverted data, or a day the month does not have).  The
\* fields hold no ".", so the whole string matches only with exactly two of
\* them, the fields being what lies before, between and after.
strptime(value) ==
    LET dots == {i \in 1..Len(value) : value[i] = "."}
    IN  IF Cardinality(dots) # 2 THEN <<>>
        ELSE LET i == Min(dots)
                 j == CHOOSE k \in dots : k # i
                 dd == SubSeq(value, 1, i - 1)
                 mm == SubSeq(value, i + 1, j - 1)
                 yy == SubSeq(value, j + 1, Len(value))
             IN  IF MatchesDay(dd) /\ MatchesMonth(mm) /\ MatchesYear(yy)
                    /\ is_date(Number(yy), Number(mm), DayNumber(dd))
                 THEN <<Number(yy), Number(mm), DayNumber(dd)>>
                 ELSE <<>>

Format2(n) == <<Digits[(n \div 10) + 1], Digits[(n % 10) + 1]>>

Format4(n) == Format2(n \div 100) \o Format2(n % 100)

\* date.strftime(DATE_FORMAT), for a year of four digits.
strftime(dt) == Format2(Day(dt)) \o <<".">> \o Format2(Month(dt)) \o <<".">> \o Format4(Year(dt))

(***************************************************************************)
(* Inputs.                                                                 *)
(***************************************************************************)
Names == {"John", "Jane"}

Phone1 == <<"1", "2", "3", "4", "5", "6", "7", "8", "9", "0">>
Phone2 == <<"0", "9", "8", "7", "6", "5", "4", "3", "2", "1">>
PhoneShort == <<"1", "2", "3", "4", "5", "6", "7", "8", "9">>
PhoneLong == <<"1", "2", "3", "4", "5", "6", "7", "8", "9", "0", "1">>
PhoneLetters == <<"1", "2", "3", "4", "5", "a", "b", "c", "d", "e">>
PhoneHalves == [i \in 1..10 |-> "U+00BD"]

PhoneInputs == {Phone1, Phone2, PhoneShort, PhoneLong, PhoneLetters, PhoneHalves, <<>>}

Date_15_03_1990 == <<"1", "5", ".", "0", "3", ".", "1", "9", "9", "0">>
Date_1_3_1990 == <<"1", ".", "3", ".", "1", "9", "9", "0">>
Date_23_01_1985_dashes == <<"2", "3", "-", "0", "1", "-", "1", "9", "8", "5">>
Date_31_02_2000 == <<"3", "1", ".", "0", "2", ".", "2", "0", "0", "0">>
Date_29_02_2000 == <<"2", "9", ".", "0", "2", ".", "2", "0", "0", "0">>
Date_29_02_1900 == <<"2", "9", ".", "0", "2", ".", "1", "9", "0", "0">>
Date_15_03_90 == <<"1", "5", ".", "0", "3", ".", "9", "0">>
Date_31_12_1985 == <<"3", "1", ".", "1", "2", ".", "1", "9", "8", "5">>
Date_03_01_1990 == <<"0", "3", ".", "0", "1", ".", "1", "9", "9", "0">>

BookPhoneInputs == {Phone1}

BookBirthdayInputs == {Date_15_03_1990}

UpcomingBirthdayInputs == {Date_31_12_1985, Date_03_01_1990, Date_29_02_2000}

\* The values of datetime.today().date(): the days around two turns of the
\* year and around the end of a leap year's February.
TodayRanges ==
    {<<<<2022, 12, 22>>, <<2023, 1, 1>>>>,
     <<<<2023, 12, 30>>, <<2023, 12, 31>>>>,
     <<<<2024, 2, 28>>, <<2024, 3, 1>>>>}

TodayDates ==
    {fromordinal(n) : n \in UNION {toordinal(r[1])..toordinal(r[2]) : r \in TodayRanges}}

BirthdayInputs ==
    {Date_15_03_1990, Date_1_3_1990, Date_23_01_1985_dashes, Date_31_02_2000,
     Date_29_02_2000, Date_29_02_1900, Date_15_03_90, <<>>}

(***************************************************************************)
(* State.  heap[r] is the Record object r; book is AddressBook.data, a     *)
(* dict, as the sequence of its items in iteration order; last is the last *)
(* call: its arguments and what it returned or raised.  Two history        *)
(* variables: latest[name] is the Record of the latest add_record under    *)
(* name that no delete of name followed, 0 when there is none; pre is the  *)
(* heap and the book as they were before the last call, kept where the     *)
(* claims compare a call's effect with what was there (Remember).          *)
(***************************************************************************)
NoCall ==
    [op |-> "", rid |-> 0, name |-> "", arg1 |-> <<>>, arg2 |-> <<>>, ret |-> <<>>,
     raised |-> "", found |-> 0, today |-> <<>>, result |-> <<>>]

NoPre == [heap |-> <<>>, book |-> <<>>]

Remember == pre' = [heap |-> heap, book |-> book]

\* Record.__init__(name), birthday left at its default None.
Record(name) == [name |-> name, phones |-> <<>>, birthday |-> None]

Call(op, r) == [NoCall EXCEPT !.op = op, !.rid = r, !.name = heap[r].name]

(***************************************************************************)
(* Record.                                                                 *)
(***************************************************************************)
RECURSIVE first_index(_, _, _)
\* "for index, p in enumerate(self.phones): if p.value == phone: ... break":
\* the first index from i on that holds phone, 0 when none does.
first_index(phones, phone, i) ==
    IF i > Len(phones) THEN 0
    ELSE IF phones[i] = phone THEN i
    ELSE first_index(phones, phone, i + 1)

phones_after_add(phones, phone) ==
    IF is_phone_valid(phone) THEN Append(phones, phone) ELSE phones

add_phone_return(phones, phone) ==
    IF phones # <<>> THEN MsgPhoneAdded ELSE MsgPhoneNotAdded(phone)

\* A remove that drops every match instead of stopping at the first.
phones_after_remove_all(phones, phone) ==
    SelectSeq(phones, LAMBDA p : p # phone)

phones_after_remove(phones, phone) ==
    LET i == first_index(phones, phone, 1)
    IN  IF i = 0 THEN phones
        ELSE SubSeq(phones, 1, i - 1) \o SubSeq(phones, i + 1, Len(phones))

\* An edit that replaces every match instead of stopping at the first.
phones_after_edit_all(phones, old_value, new_value) ==
    IF is_phone_valid(new_value)
    THEN [i \in 1..Len(phones) |-> IF phones[i] = old_value THEN new_value ELSE phones[i]]
    ELSE phones

phones_after_edit(phones, old_value, new_value) ==
    IF is_phone_valid(new_value)
    THEN LET i == first_index(phones, old_value, 1)
         IN  IF i = 0 THEN phones ELSE [phones EXCEPT ![i] = new_value]
    ELSE phones

\* Record.find_phone: the index of the Phone returned, 0 for None.
find_phone(phones, phone) == first_index(phones, phone, 1)

\* An add_birthday that clears the birthday before it parses.
birthday_after_add_clearing(birthday, value) == strptime(value)

birthday_after_add(birthday, value) ==
    IF strptime(value) # <<>> THEN strptime(value) ELSE birthday

add_birthday_return(value) ==
    IF strptime(value) # <<>> THEN MsgBirthdayAdded ELSE MsgInvalidDate

NewRecord(name) ==
    /\ Len(heap) < MaxRecords
    /\ heap' = Append(heap, Record(name))
    /\ last' = [NoCall EXCEPT !.op = "Record", !.rid = Len(heap) + 1, !.name = name]
    /\ UNCHANGED <<book, latest>>

add_phone(r, phone) ==
    /\ r \in DOMAIN heap
    /\ LET after == phones_after_add(heap[r].phones, phone)
       IN  /\ heap' = [heap EXCEPT ![r].phones = after]
           /\ last' = [Call("add_phone", r) EXCEPT
                          !.arg1 = phone, !.ret = add_phone_return(after, phone)]
    /\ UNCHANGED <<book, latest>>

remove_phone(r, phone) ==
    /\ r \in DOMAIN heap
    /\ heap' = [heap EXCEPT ![r].phones = phones_after_remove(@, phone)]
    /\ last' = [Call("remove_phone", r) EXCEPT !.arg1 = phone]
    /\ UNCHANGED <<book, latest>>

edit_phone(r, old_value, new_value) ==
    /\ r \in DOMAIN heap
    /\ heap' = [heap EXCEPT ![r].phones = phones_after_edit(@, old_value, new_value)]
    /\ last' = [Call("edit_phone", r) EXCEPT !.arg1 = old_value, !.arg2 = new_value]
    /\ UNCHANGED <<book, latest>>

add_birthday(r, value) ==
    /\ r \in DOMAIN heap
    /\ heap' = [heap EXCEPT ![r].birthday = birthday_after_add(@, value)]
    /\ last' = [Call("add_birthday", r) EXCEPT
                   !.arg1 = value, !.ret = add_birthday_return(value)]
    /\ UNCHANGED <<book, latest>>

(***************************************************************************)
(* One Record, every phone and birthday input.                             *)
(***************************************************************************)
InitRecord ==
    /\ heap = <<Record("John")>>
    /\ book = <<>>
    /\ latest = [n \in Names |-> 0]
    /\ last = [NoCall EXCEPT !.op = "Record", !.rid = 1, !.name = "John"]
    /\ pre = NoPre

\* The model stops adding valid phones to a Record that holds MaxPhones.
Room(r, phone, max) ==
    r \in DOMAIN heap /\ (is_phone_valid(phone) => Len(heap[r].phones) < max)

NextRecord ==
    \/ \E p \in PhoneInputs : Room(1, p, MaxPhones) /\ add_phone(1, p) /\ Remember
    \/ \E p \in PhoneInputs : remove_phone(1, p) /\ Remember
    \/ \E p, q \in PhoneInputs : edit_phone(1, p, q) /\ Remember
    \/ \E v \in BirthdayInputs : add_birthday(1, v) /\ Remember

SpecRecord == InitRecord /\ [][NextRecord]_vars

(***************************************************************************)
(* AddressBook.                                                            *)
(***************************************************************************)
RECURSIVE key_index(_, _, _)
\* The place of key name in the dict bk from i on, 0 when it is no key.
key_index(bk, name, i) ==
    IF i > Len(bk) THEN 0
    ELSE IF bk[i].name = name THEN i
    ELSE key_index(bk, name, i + 1)

\* A dict that keeps the value a key already has.
book_after_add_keeping(bk, r) ==
    IF key_index(bk, heap[r].name, 1) = 0
    THEN Append(bk, [name |-> heap[r].name, rec |-> r])
    ELSE bk

\* self.data.update({record.name.value: record}): a new key goes last, a key
\* the dict has keeps its place and gets the new value.
book_after_add(bk, r) ==
    LET i == key_index(bk, heap[r].name, 1)
        item == [name |-> heap[r].name, rec |-> r]
    IN  IF i = 0 THEN Append(bk, item) ELSE [bk EXCEPT ![i] = item]

\* self.data.get(name): the Record, 0 for None.
find_result(bk, name) ==
    LET i == key_index(bk, name, 1)
    IN  IF i = 0 THEN 0 ELSE bk[i].rec

\* "if name in self.data: self.data.pop(name)"
book_after_delete(bk, name) ==
    LET i == key_index(bk, name, 1)
    IN  IF i = 0 THEN bk ELSE SubSeq(bk, 1, i - 1) \o SubSeq(bk, i + 1, Len(bk))

add_record(r) ==
    /\ r \in DOMAIN heap
    /\ book' = book_after_add(book, r)
    /\ latest' = [latest EXCEPT ![heap[r].name] = r]
    /\ last' = Call("add_record", r)
    /\ UNCHANGED heap

find(name) ==
    /\ last' = [NoCall EXCEPT !.op = "find", !.name = name,
                              !.found = find_result(book, name)]
    /\ UNCHANGED <<heap, book, latest>>

delete(name) ==
    /\ book' = book_after_delete(book, name)
    /\ latest' = [latest EXCEPT ![name] = 0]
    /\ last' = [NoCall EXCEPT !.op = "delete", !.name = name]
    /\ UNCHANGED heap

\* A window check that leaves out the last day.
in_window_exclusive(delta_days) == 0 <= delta_days /\ delta_days < WindowDays

\* "0 <= delta_days <= 7"
in_window(delta_days) == 0 <= delta_days /\ delta_days <= WindowDays

\* A weekend shift of two days for Saturday and Sunday alike.
adjust_for_weekend_two(dt) ==
    IF weekday(dt) \in WEEKEND_DAYS THEN date_plus(dt, 2) ELSE dt

\* A weekend shift of a whole week, the weekday not subtracted.
adjust_for_weekend_week(dt) ==
    IF weekday(dt) \in WEEKEND_DAYS THEN date_plus(dt, DAYS_IN_WEEK) ELSE dt

\* AddressBook.adjust_for_weekend
adjust_for_weekend(dt) ==
    IF weekday(dt) \in WEEKEND_DAYS
    THEN date_plus(dt, DAYS_IN_WEEK - weekday(dt))
    ELSE dt

\* A candidate date that moves a 29 February the year does not have to 1 March.
birthday_this_year_rolling(b_value, today) ==
    LET at(y) == IF is_date(y, Month(b_value), Day(b_value))
                 THEN <<y, Month(b_value), Day(b_value)>>
                 ELSE <<y, 3, 1>>
    IN  IF date_lt(at(Year(today)), today) THEN at(Year(today) + 1) ELSE at(Year(today))

\* birthday_this_year of get_upcoming_birthdays: the birthday in today's year,
\* or in the next when that is before today; <<>> when a replace raises.
birthday_this_year(b_value, today) ==
    LET this == replace_year(b_value, Year(today))
    IN  IF this = <<>> THEN <<>>
        ELSE IF date_lt(this, today) THEN replace_year(this, Year(today) + 1)
        ELSE this

Returned(list) == [raised |-> "", list |-> list]
Raised(error) == [raised |-> error, list |-> <<>>]

RECURSIVE upcoming_from(_, _, _)
\* The loop of get_upcoming_birthdays from item i of the dict on, acc being
\* upcoming_birthdays so far.
upcoming_from(i, today, acc) ==
    IF i > Len(book) THEN Returned(acc)
    ELSE LET contact == heap[book[i].rec]
         IN  IF contact.birthday = None THEN upcoming_from(i + 1, today, acc)
             ELSE LET candidate == birthday_this_year(contact.birthday, today)
                  IN  IF candidate = <<>> THEN Raised("ValueError")
                      ELSE IF ~in_window(days_between(candidate, today))
                      THEN upcoming_from(i + 1, today, acc)
                      ELSE upcoming_from(i + 1, today,
                               Append(acc,
                                   [name |-> contact.name,
                                    congratulation_date |->
                                        strftime(adjust_for_weekend(candidate))]))

RECURSIVE Reverse(_)
Reverse(seq) == IF seq = <<>> THEN <<>> ELSE Append(Reverse(Tail(seq)), Head(seq))

\* A loop that puts each entry in front of the list.
upcoming_birthdays_prepending(today) ==
    LET out == upcoming_from(1, today, <<>>)
    IN  [out EXCEPT !.list = Reverse(@)]

upcoming_birthdays(today) == upcoming_from(1, today, <<>>)

get_upcoming_birthdays(today) ==
    /\ LET out == upcoming_birthdays(today)
       IN  last' = [NoCall EXCEPT !.op = "get_upcoming_birthdays", !.today = today,
                                  !.raised = out.raised, !.result = out.list]
    /\ UNCHANGED <<heap, book, latest>>

(***************************************************************************)
(* The book with its Records: construction, phones, birthday, add_record,  *)
(* find and delete.                                                        *)
(***************************************************************************)
InitBook ==
    /\ heap = <<>>
    /\ book = <<>>
    /\ latest = [n \in Names |-> 0]
    /\ last = NoCall
    /\ pre = NoPre

NextBook ==
    \/ \E n \in Names : NewRecord(n) /\ Remember
    \/ \E r \in 1..MaxRecords : \E p \in BookPhoneInputs :
           Room(r, p, MaxBookPhones) /\ add_phone(r, p) /\ Remember
    \/ \E r \in 1..MaxRecords : \E v \in BookBirthdayInputs : add_birthday(r, v) /\ Remember
    \/ \E r \in 1..MaxRecords : add_record(r) /\ Remember
    \/ \E n \in Names : find(n) /\ Remember
    \/ \E n \in Names : delete(n) /\ Remember

SpecBook == InitBook /\ [][NextBook]_vars

(***************************************************************************)
(* The book with birthdays and the query for the upcoming ones.            *)
(***************************************************************************)
NextBirthdays ==
    \/ \E n \in Names : NewRecord(n) /\ UNCHANGED pre
    \/ \E r \in 1..MaxRecords : \E v \in UpcomingBirthdayInputs :
           add_birthday(r, v) /\ UNCHANGED pre
    \/ \E r \in 1..MaxRecords : add_record(r) /\ UNCHANGED pre
    \/ \E n \in Names : delete(n) /\ UNCHANGED pre
    \/ \E t \in TodayDates : get_upcoming_birthdays(t) /\ UNCHANGED pre

SpecBirthdays == InitBook /\ [][NextBirthdays]_vars

(***************************************************************************)
(* The commands of cli_bot_v4.py that add a contact and set its birthday.  *)
(***************************************************************************)
CliPhoneInputs == {Phone1, PhoneShort}

MsgContactAdded == <<"Contact added.">>
MsgContactUpdated == <<"Contact updated.">>
MsgContactNotUpdated == <<"Contact is not updated">>

\* "record.birthday == birthday" with the str argument on the right: the
\* attribute holds None or a Birthday, a class that defines no __eq__, so the
\* comparison is by identity and only another str could equal the argument.
birthday_equals_argument(birthday, value) ==
    LET type == IF birthday = None THEN "NoneType" ELSE "Birthday"
    IN  type = "str" /\ birthday = value

\* add_contact((name, phone), contacts): a new Record with the phone, if it
\* is valid, put in the book under name.
cli_add_contact(name, phone) ==
    /\ Len(heap) < MaxRecords
    /\ LET r == Len(heap) + 1
           i == key_index(book, name, 1)
           item == [name |-> name, rec |-> r]
       IN  /\ heap' = Append(heap, [Record(name) EXCEPT
                                       !.phones = phones_after_add(<<>>, phone)])
           /\ book' = IF i = 0 THEN Append(book, item) ELSE [book EXCEPT ![i] = item]
           /\ latest' = [latest EXCEPT ![name] = r]
           /\ last' = [NoCall EXCEPT !.op = "cli_add_contact", !.rid = r, !.name = name,
                                     !.arg1 = phone, !.ret = MsgContactAdded]

\* add_birthday((name, birthday), contacts): find(name) of a name the book
\* does not hold is None, and the call on it raises an AttributeError that
\* input_error does not catch.
cli_add_birthday(name, value) ==
    LET r == find_result(book, name)
    IN  IF r = 0
        THEN /\ last' = [NoCall EXCEPT !.op = "cli_add_birthday", !.name = name,
                                       !.arg1 = value, !.raised = "AttributeError"]
             /\ UNCHANGED <<heap, book, latest>>
        ELSE LET after == birthday_after_add(heap[r].birthday, value)
             IN  /\ heap' = [heap EXCEPT ![r].birthday = after]
                 /\ last' = [NoCall EXCEPT
                                !.op = "cli_add_birthday", !.rid = r, !.name = name,
                                !.arg1 = value,
                                !.ret = IF birthday_equals_argument(after, value)
                                        THEN MsgContactUpdated
                                        ELSE MsgContactNotUpdated]
                 /\ UNCHANGED <<book, latest>>

NextCli ==
    \/ \E n \in Names : \E p \in CliPhoneInputs : cli_add_contact(n, p) /\ Remember
    \/ \E n \in Names : \E v \in BirthdayInputs : cli_add_birthday(n, v) /\ Remember

SpecCli == InitBook /\ [][NextCli]_vars

(***************************************************************************)
(* Claims about one Record (SpecRecord).                                   *)
(***************************************************************************)
LastPhones == heap[last.rid].phones
LastBirthday == heap[last.rid].birthday
PrePhones == pre.heap[last.rid].phones
PreBirthday == pre.heap[last.rid].birthday

TenNumeric(p) == Len(p) = 10 /\ \A i \in 1..Len(p) : p[i] \in NumericChars
TenDecimalDigits(p) == Len(p) = 10 /\ \A i \in 1..Len(p) : p[i] \in DecimalDigits
Hits(phones, value) == {i \in 1..Len(phones) : phones[i] = value}

\* C1: add_phone(p) with p not exactly 10 numeric characters leaves phones
\* unchanged and returns the failure message naming p, whatever the Record
\* already holds.
C1_InvalidAddReportsFailure ==
    (last.op = "add_phone" /\ ~TenNumeric(last.arg1)) =>
        /\ LastPhones = PrePhones
        /\ last.ret = MsgPhoneNotAdded(last.arg1)

\* C2: every stored phone is exactly 10 characters, all decimal digits.
C2_StoredPhonesAreTenDecimalDigits ==
    \A r \in DOMAIN heap : \A i \in 1..Len(heap[r].phones) :
        TenDecimalDigits(heap[r].phones[i])

\* C5: edit_phone(old, new) changes nothing when new is invalid or old is not
\* stored; otherwise the first entry equal to old becomes new in place, the
\* length and every other entry (later duplicates of old too) staying.
C5_EditReplacesFirstMatchOnly ==
    last.op = "edit_phone" =>
        LET old == PrePhones
            hits == Hits(old, last.arg1)
        IN  /\ last.raised = ""
            /\ IF ~TenNumeric(last.arg2) \/ hits = {}
               THEN LastPhones = old
               ELSE /\ Len(LastPhones) = Len(old)
                    /\ \A i \in 1..Len(old) :
                           LastPhones[i] = IF i = Min(hits) THEN last.arg2 ELSE old[i]

C5_Witness ==
    /\ last.op = "edit_phone"
    /\ TenNumeric(last.arg2)
    /\ last.arg2 # last.arg1
    /\ Cardinality(Hits(PrePhones, last.arg1)) >= 2
    /\ Cardinality(Hits(LastPhones, last.arg1)) >= 1
    /\ LastPhones # PrePhones

\* The years of the birthday inputs, and every calendar date in them.
InputYears == {1900, 1985, 1990, 2000}

CalendarDates ==
    {dt \in InputYears \X (1..12) \X (1..31) : Day(dt) <= days_in_month(Year(dt), Month(dt))}

\* The texts the format DD.MM.YYYY reads as date dt: day and month with or
\* without the leading zero (the day also with a space for it), the year with
\* four digits.
DayTexts(d) ==
    {Format2(d)} \cup (IF d < 10 THEN {<<Digits[d + 1]>>, <<" ", Digits[d + 1]>>} ELSE {})
MonthTexts(m) ==
    {Format2(m)} \cup (IF m < 10 THEN {<<Digits[m + 1]>>} ELSE {})
DateTexts(dt) ==
    {dd \o <<".">> \o mm \o <<".">> \o Format4(Year(dt)) :
        dd \in DayTexts(Day(dt)), mm \in MonthTexts(Month(dt))}

ExpectedDate(text) ==
    IF \E dt \in CalendarDates : text \in DateTexts(dt)
    THEN CHOOSE dt \in CalendarDates : text \in DateTexts(dt)
    ELSE <<>>

\* C7: add_birthday(value) never raises; a value that is not a DD.MM.YYYY date
\* gets the fixed message and leaves the birthday as it was; a date is stored,
\* overwriting any earlier one, and reported as added.
C7_AddBirthdayStoresOrKeeps ==
    last.op = "add_birthday" =>
        /\ last.raised = ""
        /\ IF ExpectedDate(last.arg1) = <<>>
           THEN /\ last.ret = MsgInvalidDate
                /\ LastBirthday = PreBirthday
           ELSE /\ last.ret = MsgBirthdayAdded
                /\ LastBirthday = ExpectedDate(last.arg1)

C7_Witness ==
    /\ last.op = "add_birthday"
    /\ last.arg1 = Date_23_01_1985_dashes
    /\ last.ret = MsgInvalidDate
    /\ PreBirthday = <<1990, 3, 15>>
    /\ LastBirthday = <<1990, 3, 15>>

\* C8: remove_phone(value) removes the first phone equal to value and keeps
\* the others (later duplicates too) in order; with no such phone it changes
\* nothing, and it never fails.
C8_RemoveDropsFirstMatchOnly ==
    last.op = "remove_phone" =>
        LET old == PrePhones
            hits == Hits(old, last.arg1)
        IN  /\ last.raised = ""
            /\ IF hits = {}
               THEN LastPhones = old
               ELSE /\ Len(LastPhones) = Len(old) - 1
                    /\ \A i \in 1..Len(LastPhones) :
                           LastPhones[i] = IF i < Min(hits) THEN old[i] ELSE old[i + 1]

C8_Witness ==
    /\ last.op = "remove_phone"
    /\ Len(PrePhones) = 3
    /\ Hits(PrePhones, last.arg1) = {2, 3}
    /\ LastPhones = <<PrePhones[1], last.arg1>>

(***************************************************************************)
(* Claims about the book (SpecBook).                                       *)
(***************************************************************************)
\* C6: the book holds at most one entry per name, and find(name) returns the
\* Record of the latest add_record under that name that no delete followed
\* (None when there is none); add_record changes no Record, so the Record
\* found has its own phones and birthday and nothing of the one it replaced.
C6_FindReturnsLatestAdded ==
    /\ \A i, j \in DOMAIN book : book[i].name = book[j].name => i = j
    /\ \A n \in Names : find_result(book, n) = latest[n]
    /\ last.op = "find" => last.found = latest[last.name]
    /\ last.op = "add_record" => heap = pre.heap

C6_Witness ==
    /\ last.op = "add_record"
    /\ LET old == find_result(pre.book, last.name)
       IN  /\ old # 0
           /\ old # last.rid
           /\ heap[old].phones # <<>>
           /\ heap[old].birthday # <<>>
    /\ find_result(book, last.name) = last.rid
    /\ heap[last.rid].phones = <<>>
    /\ heap[last.rid].birthday = <<>>

(***************************************************************************)
(* Claims about the upcoming birthdays (SpecBirthdays).  The days are      *)
(* counted here by stepping through the calendar from today.               *)
(***************************************************************************)
Leap(y) == (y % 4 = 0 /\ y % 100 # 0) \/ y % 400 = 0

MonthLength(y, m) ==
    CASE m \in {1, 3, 5, 7, 8, 10, 12} -> 31
      [] m \in {4, 6, 9, 11} -> 30
      [] OTHER -> IF Leap(y) THEN 29 ELSE 28

NextDay(dt) ==
    IF Day(dt) < MonthLength(Year(dt), Month(dt)) THEN <<Year(dt), Month(dt), Day(dt) + 1>>
    ELSE IF Month(dt) < 12 THEN <<Year(dt), Month(dt) + 1, 1>>
    ELSE <<Year(dt) + 1, 1, 1>>

RECURSIVE DayAfter(_, _)
DayAfter(dt, k) == IF k = 0 THEN dt ELSE DayAfter(NextDay(dt), k - 1)

SameMonthDay(a, b) == Month(a) = Month(b) /\ Day(a) = Day(b)

\* The numbers of days, within 0..7, from today to a day with the birthday's
\* month and day: the delta of the next occurrence when it is in 0..7, and
\* nothing when it is not.
DaysAhead(today, birthday) ==
    {k \in 0..7 : SameMonthDay(DayAfter(today, k), birthday)}

Returns == last.op = "get_upcoming_birthdays" /\ last.raised = ""

BirthdayOf(item) == heap[item.rec].birthday

IsUpcoming(item) ==
    BirthdayOf(item) # <<>> /\ DaysAhead(last.today, BirthdayOf(item)) # {}

Listed(name) == \E k \in DOMAIN last.result : last.result[k].name = name

Has29February ==
    \E i \in DOMAIN book :
        BirthdayOf(book[i]) # <<>> /\ SameMonthDay(BirthdayOf(book[i]), <<2000, 2, 29>>)

\* C3: a call that returns lists a record with a birthday exactly when the
\* next occurrence of its month and day, on or after today, is 0 to 7 days
\* ahead; and the call returns whenever no birthday of the book is a
\* 29 February.
C3_ListedIffWithinSevenDays ==
    last.op = "get_upcoming_birthdays" =>
        /\ last.raised # "" => Has29February
        /\ last.raised = "" =>
               \A i \in DOMAIN book :
                   BirthdayOf(book[i]) # <<>> => (Listed(book[i].name) <=> IsUpcoming(book[i]))

\* A birthday exactly 7 days ahead, in the next year, is listed.
C3_Witness ==
    /\ Returns
    /\ \E i \in DOMAIN book :
           /\ BirthdayOf(book[i]) # <<>>
           /\ DaysAhead(last.today, BirthdayOf(book[i])) = {7}
           /\ Year(DayAfter(last.today, 7)) = Year(last.today) + 1
           /\ Listed(book[i].name)

Padded(dt) ==
    <<Digits[(Day(dt) \div 10) + 1], Digits[(Day(dt) % 10) + 1], ".",
      Digits[(Month(dt) \div 10) + 1], Digits[(Month(dt) % 10) + 1], ".",
      Digits[(Year(dt) \div 1000) + 1], Digits[((Year(dt) \div 100) % 10) + 1],
      Digits[((Year(dt) \div 10) % 10) + 1], Digits[(Year(dt) % 10) + 1]>>

\* The candidate date of a listed record: the next occurrence of its birthday.
CandidateOf(name) ==
    LET i == CHOOSE j \in DOMAIN book : book[j].name = name
        k == CHOOSE d \in DaysAhead(last.today, BirthdayOf(book[i])) : TRUE
    IN  DayAfter(last.today, k)

Shift(dt) ==
    CASE weekday(dt) = 5 -> 2
      [] weekday(dt) = 6 -> 1
      [] OTHER -> 0

\* C4: the congratulation date of every entry is the candidate date from
\* Monday to Friday, two days later for a Saturday, one day later for a
\* Sunday, and so never a Saturday or a Sunday.
C4_CongratulationDateSkipsWeekend ==
    Returns =>
        \A k \in DOMAIN last.result :
            LET candidate == CandidateOf(last.result[k].name)
                expected == DayAfter(candidate, Shift(candidate))
            IN  /\ last.result[k].congratulation_date = Padded(expected)
                /\ weekday(expected) \notin {5, 6}

\* A Saturday birthday congratulated on the Monday, in the next year, beside
\* a Tuesday birthday congratulated on its day.
C4_Witness ==
    /\ Returns
    /\ \E k \in DOMAIN last.result :
           /\ CandidateOf(last.result[k].name) = <<2022, 12, 31>>
           /\ weekday(<<2022, 12, 31>>) = 5
           /\ last.result[k].congratulation_date = Padded(<<2023, 1, 2>>)
    /\ \E k \in DOMAIN last.result :
           /\ CandidateOf(last.result[k].name) = <<2023, 1, 3>>
           /\ last.result[k].congratulation_date = Padded(<<2023, 1, 3>>)

EntryNames == [k \in DOMAIN last.result |-> last.result[k].name]

UpcomingItems == SelectSeq(book, IsUpcoming)

\* C9: the list holds one entry for each record of the book with a birthday
\* in the window, in the order the book iterates them, whatever their dates.
C9_OneEntryPerRecordInBookOrder ==
    Returns => EntryNames = [k \in DOMAIN UpcomingItems |-> UpcomingItems[k].name]

\* Two entries, the later date first.
C9_Witness ==
    /\ Returns
    /\ Len(last.result) = 2
    /\ date_lt(strptime(last.result[2].congratulation_date),
               strptime(last.result[1].congratulation_date))
    /\ book[1].rec > book[2].rec

\* C10: with a 29 February birthday in the book and a candidate year that is
\* no leap year (today's, or the next after the rollover), the call raises
\* and returns no list.
C10_February29RaisesInCommonYear ==
    (/\ last.op = "get_upcoming_birthdays"
     /\ Has29February
     /\ (~Leap(Year(last.today)) \/ Month(last.today) > 2)) =>
        /\ last.raised = "ValueError"
        /\ last.result = <<>>

\* The call raises although another record has its birthday in the window.
C10_Witness ==
    /\ last.op = "get_upcoming_birthdays"
    /\ last.raised = "ValueError"
    /\ Has29February
    /\ book[1].name # book[Len(book)].name
    /\ IsUpcoming(book[1])

MaxCongratulationDays == WindowDays + 2

\* The number of days from today to the congratulation date of an entry, when
\* it is within 0..9.
CongratulationDays(item) ==
    {j \in 0..MaxCongratulationDays :
        item.congratulation_date = Padded(DayAfter(last.today, j))}

\* C12: the congratulation date of every entry is from 0 to 9 days after
\* today, and it is more than 7 days after today only past a weekend: 9 days
\* exactly when the birthday is 7 days ahead on a Saturday.
C12_CongratulationWithinNineDays ==
    Returns =>
        \A k \in DOMAIN last.result :
            LET candidate == CandidateOf(last.result[k].name)
                days == CongratulationDays(last.result[k])
            IN  /\ days # {}
                /\ (MaxCongratulationDays \in days) <=>
                       /\ candidate = DayAfter(last.today, WindowDays)
                       /\ weekday(candidate) = 5

\* A birthday on the Saturday 7 days ahead, congratulated 9 days after today.
C12_Witness ==
    /\ Returns
    /\ \E k \in DOMAIN last.result :
           /\ CandidateOf(last.result[k].name) = DayAfter(last.today, 7)
           /\ weekday(DayAfter(last.today, 7)) = 5
           /\ last.result[k].congratulation_date = Padded(DayAfter(last.today, 9))
           /\ \A j \in 0..8 :
                  last.result[k].congratulation_date # Padded(DayAfter(last.today, j))

(***************************************************************************)
(* Claims about the commands (SpecCli).                                    *)
(***************************************************************************)
\* C11: add_birthday((name, birthday), book) for a name of the book returns
\* "Contact updated." when birthday is a date, which is then stored, and
\* "Contact is not updated" when it is not, the birthday staying as it was.
C11_AddBirthdayCommandReportsUpdate ==
    (last.op = "cli_add_birthday" /\ find_result(pre.book, last.name) # 0) =>
        /\ last.raised = ""
        /\ IF ExpectedDate(last.arg1) # <<>>
           THEN /\ LastBirthday = ExpectedDate(last.arg1)
                /\ last.ret = MsgContactUpdated
           ELSE /\ LastBirthday = PreBirthday
                /\ last.ret = MsgContactNotUpdated

====
